---- MODULE Spec2Model ----
(***************************************************************************)
(* Model of the dual-format renderer of lisdf.components (model.py and     *)
(* state.py).  An entity tree is rendered to the nesting format (SDF) or   *)
(* to the flattening format (URDF) through a render context that holds a   *)
(* name-scope stack, a pose stack and a list of diagnostics.               *)
(*                                                                         *)
(* The flattening render of a Model is modelled step by step (one action   *)
(* per entity handler, the try/finally of Model._to_urdf and Link._to_urdf *)
(* split into an entering and a leaving action), because it changes the    *)
(* context as it goes.  The nesting render never touches the context and   *)
(* is one action that computes the fragment.                               *)
(*                                                                         *)
(* lisdf.components.base (Pose, StringConfigurable, StringifyContext) is   *)
(* not among the sources; the context operations and the pose algebra are  *)
(* modelled from the specification (sections 4.1 and 4.2).                 *)
(* A fragment is the element tree of the text the code formats; the XML    *)
(* prolog, indentation and the numbers of shapes, inertias and materials   *)
(* are left out.                                                           *)
(***************************************************************************)
EXTENDS Naturals, Sequences, FiniteSets

VARIABLES
  tree,   \* the entity tree the caller holds (its root)
  target, \* 0: the call renders the root; k: it renders Link k of the root
          \* Model through Link.to_sdf_xml / Link.to_urdf_xml
  fmt,    \* format of the render call in progress: "sdf", "urdf" or "none"
  pc,     \* "idle", "call", "links", "link", "unwind", "done", "raised"
  ctx,    \* the StringifyContext: [names, poses, warnings]
  li,     \* index of the Link that Model._to_urdf renders next
  ji,     \* index of the Joint that Model._to_urdf renders next
  ci,     \* index of the Collision that Link._to_urdf renders next
  vi,     \* index of the Visual that Link._to_urdf renders next
  frags,  \* fragments gathered so far: [links, joints, collisions, visuals]
  out,    \* None, or Some(fragment) once the call has returned
  hist,   \* history: pushes and pops made on each stack during the call
  prev    \* None, or Some(result of the first top-level call)

vars == <<tree, target, fmt, pc, ctx, li, ji, ci, vi, frags, out, hist, prev>>

-----------------------------------------------------------------------------
(* Bounds of the model.                                                    *)

MaxLinks == 2
MaxJoints == 2
MaxGeoms == 2
MaxSensors == 1

-----------------------------------------------------------------------------
(* Optional values: None, or Some(x).                                      *)

None == <<>>
Some(x) == <<x>>
Get(o) == o[1]

-----------------------------------------------------------------------------
(* Pose (specification 4.1): a rigid transform with an associative,        *)
(* non-commutative composition that has identity as unit.  A pose is the   *)
(* sequence of the elementary transforms it chains.                        *)

identity == <<>>
compose(outer, inner) == outer \o inner

Pm == <<"pm">>
Pl == <<"pl">>
Pg == <<"pg">>
Pj == <<"pj">>

-----------------------------------------------------------------------------
(* Render context (specification 4.2).                                     *)

NAME_SCOPE_SEP == "."

NewContext == [names |-> <<>>, poses |-> <<>>, warnings |-> <<>>]

NoHist == [namePush |-> 0, namePop |-> 0, posePush |-> 0, posePop |-> 0]

Top(s) == s[Len(s)]
Pop(s) == IF Len(s) = 0 THEN s ELSE SubSeq(s, 1, Len(s) - 1)

warning(c, entity, message) ==
  [c EXCEPT !.warnings = Append(@, [entity |-> entity, message |-> message])]

push_scoped_name(c, name) == [c EXCEPT !.names = Append(@, name)]

pop_scoped_name(c) == [c EXCEPT !.names = Pop(@)]

TopPose(c) == IF Len(c.poses) = 0 THEN identity ELSE Top(c.poses)

push_scoped_pose(c, pose) ==
  [c EXCEPT !.poses = Append(@, compose(TopPose(c), pose))]

pop_scoped_pose(c) == [c EXCEPT !.poses = Pop(@)]

RECURSIVE JoinScope(_)
JoinScope(names) ==
  IF Len(names) = 0 THEN ""
  ELSE JoinScope(SubSeq(names, 1, Len(names) - 1)) \o Top(names) \o NAME_SCOPE_SEP

get_scoped_name(c, name) == JoinScope(c.names) \o name

Pose_to_urdf(c, pose) == compose(TopPose(c), pose)

-----------------------------------------------------------------------------
(* Fragments: the element tree of the rendered text.                       *)

E(tag, name, text, children) ==
  [tag |-> tag, name |-> name, text |-> text, children |-> children]

Leaf(tag, text) == E(tag, None, text, <<>>)

EmptyFragment == E("", None, <<>>, <<>>)

RECURSIVE SelectTagFrom(_, _, _)
SelectTagFrom(s, tag, k) ==
  IF k > Len(s) THEN <<>>
  ELSE (IF s[k].tag = tag THEN <<s[k]>> ELSE <<>>) \o SelectTagFrom(s, tag, k + 1)

ChildrenOf(frag, tag) == SelectTagFrom(frag.children, tag, 1)

-----------------------------------------------------------------------------
(* References to entities of the tree, as a diagnostic records them.       *)

Ref(kind, link, idx) == [kind |-> kind, link |-> link, idx |-> idx]
RootRef(kind) == Ref(kind, 0, 0)

-----------------------------------------------------------------------------
(* The entity trees a caller builds.  Names are given by position so that  *)
(* the order of a list shows in the output.                                *)

LinkName == <<"a", "b", "c", "d">>
JointName == <<"j1", "j2", "j3", "j4">>
CollisionName == <<"c1", "c2", "c3", "c4">>
VisualName == <<"v1", "v2", "v3", "v4">>

SurfaceInfo(contact, friction) == [contact |-> contact, friction |-> friction]

Collision(name, pose, surface) ==
  [name |-> name, pose |-> pose, surface |-> surface]

Visual(name, pose, material) ==
  [name |-> name, pose |-> pose, material |-> material]

Link(name, pose, inertial, collisions, visuals, sensors) ==
  [kind |-> "Link", name |-> name, parent |-> None, pose |-> pose,
   inertial |-> inertial, collisions |-> collisions, visuals |-> visuals,
   sensors |-> sensors]

Joint(name, parent, child) ==
  [name |-> name, parent |-> parent, child |-> child, pose |-> Pj,
   type |-> "fixed", control_info |-> None]

Model(name, pose, parent, static, links, joints) ==
  [kind |-> "Model", name |-> name, pose |-> pose, parent |-> parent,
   static |-> static, links |-> links, joints |-> joints]

\* Link.from_simple_geom: no pose of its own, zero inertial, one collision
\* and one visual at the given pose.
from_simple_geom(name, pose) ==
  Link(name, None, Some("zeros"),
       <<Collision(name \o "_collision", pose, None)>>,
       <<Visual(name \o "_visual", pose, Some("rgba"))>>,
       <<>>)

\* Model(self.name) followed by model.links.append(self).
WrapLink(link) == Model(link.name, None, None, FALSE, <<link>>, <<>>)

OptPoses(p) == {None, Some(p)}

CollisionLists ==
  UNION {{[k \in 1..n |-> Collision(CollisionName[k], Pg, s[k])] :
            s \in [1..n -> {None, Some(SurfaceInfo(FALSE, TRUE)),
                            Some(SurfaceInfo(TRUE, FALSE))}]} :
         n \in 0..MaxGeoms}

VisualLists ==
  {[k \in 1..n |-> Visual(VisualName[k], Pg, m)] :
     m \in {None, Some("rgba")}, n \in 0..MaxGeoms}

SensorLists == {[k \in 1..n |-> "camera"] : n \in 0..MaxSensors}

\* Links with no geometry: only the pose varies.
BareLinkLists ==
  UNION {{[k \in 1..n |-> Link(LinkName[k], p[k], None, <<>>, <<>>, <<>>)] :
            p \in [1..n -> OptPoses(Pl)]} :
         n \in 0..MaxLinks}

\* Links with every combination of children.
RichLinks ==
  {Link(LinkName[1], p, i, c, v, s) :
     p \in OptPoses(Pl), i \in {None, Some("inertial")},
     c \in CollisionLists, v \in VisualLists, s \in SensorLists}
  \cup {from_simple_geom(LinkName[1], Pg)}

\* Joints: each one named or not; all join links a and b the same way round.
JointLists ==
  UNION {{[k \in 1..n |-> Joint(IF named[k] THEN Some(JointName[k]) ELSE None,
                                LinkName[e[1]], LinkName[e[2]])] :
            named \in [1..n -> BOOLEAN], e \in {<<1, 2>>, <<2, 1>>}} :
         n \in 0..MaxJoints}

\* Models with many links and joints, every combination of Model fields.
WideModels ==
  {Model("M", p, par, st, ls, js) :
     p \in OptPoses(Pm), par \in {None, Some("world")}, st \in BOOLEAN,
     ls \in BareLinkLists, js \in JointLists}

\* Models with one link with children, Model fields all unset or all set.
DeepModels ==
  {Model("M", f[1], f[2], f[3], <<l>>, <<>>) :
     f \in {<<None, None, FALSE>>, <<Some(Pm), Some("world"), TRUE>>},
     l \in RichLinks}

\* The 3-axis scale of an Include: the three components as texts.
Scales == {<<"1", "1", "1">>, <<"sx", "sy", "sz">>}

Includes ==
  {[kind |-> "Include", name |-> n, uri |-> "model://table",
    scale |-> sc, pose |-> p, parent |-> None,
    static |-> st, scale1d |-> s1, content |-> None] :
     n \in {None, Some("inc")}, sc \in Scales, p \in OptPoses(Pm),
     st \in BOOLEAN, s1 \in {None, Some("s")}}

Surfaces ==
  {[kind |-> "SurfaceContact"], [kind |-> "SurfaceFriction"]}
  \cup {[kind |-> "SurfaceInfo", contact |-> c, friction |-> f] :
          c \in BOOLEAN, f \in BOOLEAN}

StateKinds ==
  {"JointAxisState", "JointState", "LinkState", "ModelState", "WorldState"}

States == {[kind |-> k] : k \in StateKinds}

NestingOnlyKinds ==
  {"SurfaceContact", "SurfaceFriction", "SurfaceInfo"} \cup StateKinds

Roots ==
  WideModels \cup DeepModels \cup RichLinks \cup Includes \cup Surfaces
  \cup States

\* The Model a render call walks: the root, or the temporary Model that
\* Link.to_sdf_xml and Link.to_urdf_xml wrap around the Link.
IsModelCall == tree.kind \in {"Model", "Link"}
CurModel ==
  IF tree.kind = "Link" THEN WrapLink(tree)
  ELSE IF target > 0 THEN WrapLink(tree.links[target])
  ELSE tree

\* What a caller can render of a tree: the root, or a Link of a root Model.
Targets(root) == IF root.kind = "Model" THEN 0..Len(root.links) ELSE {0}

-----------------------------------------------------------------------------
(* Rendering to the nesting format (the _to_sdf methods).                  *)

\* Embedding a fragment in a parent's text: an empty string adds nothing.
Embed(frag) == IF frag = EmptyFragment THEN <<>> ELSE <<frag>>

BoolText(b) == IF b THEN <<"True">> ELSE <<"False">>

Pose_to_sdf(pose) == Leaf("pose", pose)

Inertial_to_sdf(inertial) ==
  E("inertial", None, <<inertial>>, <<Pose_to_sdf(identity), Leaf("inertia", <<>>)>>)

SurfaceContact_to_sdf == EmptyFragment

SurfaceFriction_to_sdf == EmptyFragment

SurfaceInfo_to_sdf(s) ==
  E("surface", None, <<>>,
    (IF s.contact THEN Embed(SurfaceContact_to_sdf) ELSE <<>>)
    \o (IF s.friction THEN Embed(SurfaceFriction_to_sdf) ELSE <<>>))

Collision_to_sdf(c) ==
  E("collision", Some(c.name), <<>>,
    <<Pose_to_sdf(c.pose), Leaf("geometry", <<>>)>>
    \o (IF c.surface # None THEN <<SurfaceInfo_to_sdf(Get(c.surface))>> ELSE <<>>))

Visual_to_sdf(v) ==
  E("visual", Some(v.name), <<>>,
    <<Pose_to_sdf(v.pose), Leaf("geometry", <<>>)>>
    \o (IF v.material # None THEN <<Leaf("material", v.material)>> ELSE <<>>))

Link_to_sdf(l) ==
  E("link", Some(l.name), <<>>,
    (IF l.pose # None THEN <<Pose_to_sdf(Get(l.pose))>> ELSE <<>>)
    \o (IF l.inertial # None THEN <<Inertial_to_sdf(Get(l.inertial))>> ELSE <<>>)
    \o [k \in 1..Len(l.collisions) |-> Collision_to_sdf(l.collisions[k])]
    \o [k \in 1..Len(l.visuals) |-> Visual_to_sdf(l.visuals[k])])

Joint_to_sdf(j) ==
  E("joint", j.name, <<j.type>>,
    <<Leaf("parent", <<j.parent>>), Leaf("child", <<j.child>>),
      Pose_to_sdf(j.pose), Leaf("joint_info", <<j.type>>)>>
    \o (IF j.control_info # None THEN <<Leaf("control", j.control_info)>> ELSE <<>>))

Model_to_sdf(m) ==
  E("model", Some(m.name), <<>>,
    <<Leaf("static", BoolText(m.static))>>
    \o (IF m.pose # None THEN <<Pose_to_sdf(Get(m.pose))>> ELSE <<>>)
    \o [k \in 1..Len(m.links) |-> Link_to_sdf(m.links[k])]
    \o [k \in 1..Len(m.joints) |-> Joint_to_sdf(m.joints[k])])

\* As SDFInclude_to_sdf, but the scale element is always the 3-axis vector.
SDFInclude_to_sdf_VectorFirst(i) ==
  E("include", i.name, <<>>,
    <<Leaf("uri", <<i.uri>>), Leaf("static", BoolText(i.static)),
      Leaf("scale", i.scale)>>
    \o (IF i.pose # None THEN <<Pose_to_sdf(Get(i.pose))>> ELSE <<>>))

SDFInclude_to_sdf(i) ==
  E("include", i.name, <<>>,
    <<Leaf("uri", <<i.uri>>), Leaf("static", BoolText(i.static)),
      Leaf("scale", IF i.scale1d # None THEN <<Get(i.scale1d)>> ELSE i.scale)>>
    \o (IF i.pose # None THEN <<Pose_to_sdf(Get(i.pose))>> ELSE <<>>))

-----------------------------------------------------------------------------
(* Rendering to the flattening format (the _to_urdf methods): what each    *)
(* handler does to the context and the fragment it returns.                *)

\* As Model_urdf_warnings, but the static flag is dropped without a diagnostic.
Model_urdf_warnings_StaticSilent(c, m) ==
  LET c1 == IF m.pose # None
            THEN warning(c, RootRef("Model"), "Model::pose will be ignored in URDF.")
            ELSE c
  IN IF m.parent # None
     THEN warning(c1, RootRef("Model"), "Model::parent will be ignored in URDF.")
     ELSE c1

Model_urdf_warnings(c, m) ==
  LET c1 == IF m.pose # None
            THEN warning(c, RootRef("Model"), "Model::pose will be ignored in URDF.")
            ELSE c
      c2 == IF m.parent # None
            THEN warning(c1, RootRef("Model"), "Model::parent will be ignored in URDF.")
            ELSE c1
  IN IF m.static
     THEN warning(c2, RootRef("Model"), "Model::static will be ignored in URDF.")
     ELSE c2

\* As Model_urdf_enter, but the Model's pose is pushed as well.
Model_urdf_enter_PushingPose(c, m) ==
  LET c1 == push_scoped_name(Model_urdf_warnings(c, m), m.name)
  IN IF m.pose # None THEN push_scoped_pose(c1, Get(m.pose)) ELSE c1

Model_urdf_enter(c, m) == push_scoped_name(Model_urdf_warnings(c, m), m.name)

\* As Model_urdf_finally, but the pop follows the return statement only.
Model_urdf_finally_OnReturnOnly(c, raising) ==
  IF raising THEN c ELSE pop_scoped_name(c)

\* The finally clause of Model._to_urdf: runs on return and on an exception.
Model_urdf_finally(c, raising) == pop_scoped_name(c)

Model_urdf_frag(m, links, joints) == E("robot", Some(m.name), <<>>, links \o joints)

Link_urdf_enter(c, l) ==
  IF l.pose # None THEN push_scoped_pose(c, Get(l.pose)) ELSE c

\* The finally clause of Link._to_urdf.
Link_urdf_finally(c) == pop_scoped_pose(c)

Inertial_to_urdf(c, inertial) ==
  E("inertial", None, <<inertial>>,
    <<Leaf("origin", Pose_to_urdf(c, identity)), Leaf("inertia", <<>>)>>)

Link_urdf_frag(c, l, collisions, visuals) ==
  E("link", Some(get_scoped_name(c, l.name)), <<>>,
    (IF l.inertial # None THEN <<Inertial_to_urdf(c, Get(l.inertial))>> ELSE <<>>)
    \o collisions \o visuals)

SurfaceInfo_urdf_ctx(c, self) ==
  warning(c, self, "Link surface properties are not supported in URDF.")

SurfaceInfo_urdf_frag == EmptyFragment

\* As Collision_urdf_ctx, but the surface is skipped instead of rendered.
Collision_urdf_ctx_SkippingSurface(c, col, self) == c

Collision_urdf_ctx(c, col, self) ==
  IF col.surface # None
  THEN SurfaceInfo_urdf_ctx(c, Ref("SurfaceInfo", self.link, self.idx))
  ELSE c

Collision_urdf_frag(c, col) ==
  E("collision", Some(get_scoped_name(c, col.name)), <<>>,
    <<Leaf("origin", Pose_to_urdf(c, col.pose)), Leaf("geometry", <<>>)>>
    \o (IF col.surface # None THEN Embed(SurfaceInfo_urdf_frag) ELSE <<>>))

Visual_to_material_urdf(c, v) ==
  IF v.material # None
  THEN E("material", Some(get_scoped_name(c, v.name) \o "_material"),
         v.material, <<>>)
  ELSE EmptyFragment

Visual_urdf_frag(c, v) ==
  E("visual", Some(get_scoped_name(c, v.name)), <<>>,
    <<Leaf("origin", Pose_to_urdf(c, v.pose)), Leaf("geometry", <<>>)>>
    \o (IF v.material # None THEN Embed(Visual_to_material_urdf(c, v)) ELSE <<>>))

\* assert self.name is not None
Joint_urdf_raises(j) == j.name = None

\* As Joint_urdf_frag, but the child reference keeps its local name.
Joint_urdf_frag_LocalChild(c, j) ==
  E("joint", Some(get_scoped_name(c, Get(j.name))), <<j.type>>,
    <<Leaf("parent", <<get_scoped_name(c, j.parent)>>),
      Leaf("child", <<j.child>>),
      Leaf("origin", Pose_to_urdf(c, j.pose)),
      Leaf("joint_info", <<j.type>>)>>)

Joint_urdf_frag(c, j) ==
  E("joint", Some(get_scoped_name(c, Get(j.name))), <<j.type>>,
    <<Leaf("parent", <<get_scoped_name(c, j.parent)>>),
      Leaf("child", <<get_scoped_name(c, j.child)>>),
      Leaf("origin", Pose_to_urdf(c, j.pose)),
      Leaf("joint_info", <<j.type>>)>>
    \o (IF j.control_info # None THEN <<Leaf("control", j.control_info)>> ELSE <<>>))

NotSupported(c, kind) ==
  warning(c, RootRef(kind), kind \o " is not supported in URDF.")

-----------------------------------------------------------------------------
(* The state machine.                                                      *)

NoFrags == [links |-> <<>>, joints |-> <<>>, collisions |-> <<>>, visuals |-> <<>>]

\* The operations a caller can invoke on a root: the two renders, and on an
\* Include the read of its scale_1d property.  The nesting render of the
\* state snapshot entities is outside this model.
Formats(root) ==
  IF root.kind \in StateKinds THEN {"urdf"}
  ELSE IF root.kind = "Include" THEN {"sdf", "urdf", "scale_1d"}
  ELSE {"sdf", "urdf"}

Init ==
  /\ tree \in Roots
  /\ target = 0
  /\ fmt = "none"
  /\ pc = "idle"
  /\ ctx = NewContext
  /\ li = 1 /\ ji = 1 /\ ci = 1 /\ vi = 1
  /\ frags = NoFrags
  /\ out = None
  /\ hist = NoHist
  /\ prev = None

\* StringConfigurable.to_sdf / to_urdf called with no context: a fresh
\* context is made for the call.
Call(f) ==
  /\ pc = "idle"
  /\ f \in Formats(tree)
  /\ fmt' = f
  /\ target' \in Targets(tree)
  /\ pc' = "call"
  /\ ctx' = NewContext
  /\ hist' = NoHist
  /\ out' = None
  /\ UNCHANGED <<tree, li, ji, ci, vi, frags, prev>>

\* The call has returned or raised; the caller keeps the result and the
\* diagnostics, and may render the same tree again.
Return ==
  /\ pc \in {"done", "raised"}
  /\ prev = None
  /\ prev' = Some([fmt |-> fmt, target |-> target, status |-> pc, out |-> out,
                   warnings |-> ctx.warnings])
  /\ pc' = "idle"
  /\ fmt' = "none"
  /\ UNCHANGED <<tree, target, ctx, li, ji, ci, vi, frags, out, hist>>

Finish(result, c) ==
  /\ out' = Some(result)
  /\ ctx' = c
  /\ pc' = "done"
  /\ UNCHANGED <<tree, target, fmt, li, ji, ci, vi, frags, hist, prev>>

Entered(kind, f) == pc = "call" /\ fmt = f /\ tree.kind = kind

ModelToSdf ==
  /\ pc = "call" /\ fmt = "sdf" /\ IsModelCall
  /\ Finish(Model_to_sdf(CurModel), ctx)

IncludeToSdf ==
  /\ Entered("Include", "sdf")
  /\ Finish(SDFInclude_to_sdf(tree), ctx)

SurfaceContactToSdf ==
  /\ Entered("SurfaceContact", "sdf")
  /\ Finish(SurfaceContact_to_sdf, ctx)

SurfaceFrictionToSdf ==
  /\ Entered("SurfaceFriction", "sdf")
  /\ Finish(SurfaceFriction_to_sdf, ctx)

SurfaceInfoToSdf ==
  /\ Entered("SurfaceInfo", "sdf")
  /\ Finish(SurfaceInfo_to_sdf(tree), ctx)

\* SDFInclude.scale_1d: the assertion fails when the scalar is not set,
\* otherwise the scalar is returned.
IncludeScale1d ==
  /\ Entered("Include", "scale_1d")
  /\ IF tree.scale1d = None
     THEN /\ pc' = "raised"
          /\ out' = None
     ELSE /\ pc' = "done"
          /\ out' = Some(Get(tree.scale1d))
  /\ UNCHANGED <<tree, target, fmt, ctx, li, ji, ci, vi, frags, hist, prev>>

\* As IncludeToUrdf, but the Include is rendered as in the nesting format.
IncludeToUrdf_Rendering ==
  /\ Entered("Include", "urdf")
  /\ Finish(SDFInclude_to_sdf(tree), ctx)

IncludeToUrdf ==
  /\ Entered("Include", "urdf")
  /\ pc' = "raised"
  /\ out' = None
  /\ UNCHANGED <<tree, target, fmt, ctx, li, ji, ci, vi, frags, hist, prev>>

SurfaceContactToUrdf ==
  /\ Entered("SurfaceContact", "urdf")
  /\ Finish(EmptyFragment, ctx)

SurfaceFrictionToUrdf ==
  /\ Entered("SurfaceFriction", "urdf")
  /\ Finish(EmptyFragment, ctx)

SurfaceInfoToUrdf ==
  /\ Entered("SurfaceInfo", "urdf")
  /\ Finish(SurfaceInfo_urdf_frag, SurfaceInfo_urdf_ctx(ctx, RootRef("SurfaceInfo")))

JointAxisStateToUrdf ==
  /\ Entered("JointAxisState", "urdf")
  /\ Finish(EmptyFragment, NotSupported(ctx, "JointAxisState"))

JointStateToUrdf ==
  /\ Entered("JointState", "urdf")
  /\ Finish(EmptyFragment, NotSupported(ctx, "JointState"))

LinkStateToUrdf ==
  /\ Entered("LinkState", "urdf")
  /\ Finish(EmptyFragment, NotSupported(ctx, "LinkState"))

ModelStateToUrdf ==
  /\ Entered("ModelState", "urdf")
  /\ Finish(EmptyFragment, NotSupported(ctx, "ModelState"))

WorldStateToUrdf ==
  /\ Entered("WorldState", "urdf")
  /\ Finish(EmptyFragment, NotSupported(ctx, "WorldState"))

\* As ModelToUrdfEnter, but each ignored field is also cleared on the Model.
ModelToUrdfEnter_ClearingIgnoredFields ==
  /\ pc = "call" /\ fmt = "urdf" /\ IsModelCall
  /\ ctx' = Model_urdf_enter(ctx, CurModel)
  /\ tree' = IF tree.kind = "Model" /\ target = 0
             THEN [tree EXCEPT !.pose = None, !.parent = None, !.static = FALSE]
             ELSE tree
  /\ hist' = [hist EXCEPT !.namePush = @ + (Len(ctx'.names) - Len(ctx.names))]
  /\ pc' = "links"
  /\ li' = 1 /\ ji' = 1 /\ ci' = 1 /\ vi' = 1
  /\ frags' = NoFrags
  /\ UNCHANGED <<target, fmt, out, prev>>

\* Model._to_urdf up to the try: the diagnostics, then the name is pushed.
ModelToUrdfEnter ==
  /\ pc = "call" /\ fmt = "urdf" /\ IsModelCall
  /\ ctx' = Model_urdf_enter(ctx, CurModel)
  /\ hist' = [hist EXCEPT !.namePush = @ + (Len(ctx'.names) - Len(ctx.names))]
  /\ pc' = "links"
  /\ li' = 1 /\ ji' = 1 /\ ci' = 1 /\ vi' = 1
  /\ frags' = NoFrags
  /\ UNCHANGED <<tree, target, fmt, out, prev>>

\* Link._to_urdf up to the try: the pose is pushed when the Link has one.
LinkToUrdfEnter ==
  /\ pc = "links" /\ li <= Len(CurModel.links)
  /\ ctx' = Link_urdf_enter(ctx, CurModel.links[li])
  /\ hist' = [hist EXCEPT !.posePush = @ + (Len(ctx'.poses) - Len(ctx.poses))]
  /\ pc' = "link"
  /\ ci' = 1 /\ vi' = 1
  /\ UNCHANGED <<tree, target, fmt, li, ji, frags, out, prev>>

CollisionToUrdf ==
  /\ pc = "link" /\ ci <= Len(CurModel.links[li].collisions)
  /\ LET col == CurModel.links[li].collisions[ci]
     IN /\ frags' = [frags EXCEPT !.collisions = Append(@, Collision_urdf_frag(ctx, col))]
        /\ ctx' = Collision_urdf_ctx(ctx, col, Ref("Collision", li, ci))
  /\ ci' = ci + 1
  /\ UNCHANGED <<tree, target, fmt, pc, li, ji, vi, out, hist, prev>>

VisualToUrdf ==
  /\ pc = "link" /\ ci > Len(CurModel.links[li].collisions)
  /\ vi <= Len(CurModel.links[li].visuals)
  /\ frags' = [frags EXCEPT
                 !.visuals = Append(@, Visual_urdf_frag(ctx, CurModel.links[li].visuals[vi]))]
  /\ vi' = vi + 1
  /\ UNCHANGED <<tree, target, fmt, pc, ctx, li, ji, ci, out, hist, prev>>

\* As LinkToUrdfExit, but the flattened name is written back into the Link.
LinkToUrdfExit_RenamingInPlace ==
  /\ pc = "link"
  /\ ci > Len(CurModel.links[li].collisions)
  /\ vi > Len(CurModel.links[li].visuals)
  /\ frags' = [frags EXCEPT
                 !.links = Append(@, Link_urdf_frag(ctx, CurModel.links[li],
                                                    frags.collisions, frags.visuals)),
                 !.collisions = <<>>, !.visuals = <<>>]
  /\ tree' = IF tree.kind = "Link"
             THEN [tree EXCEPT !.name = get_scoped_name(ctx, @)]
             ELSE [tree EXCEPT !.links[IF target > 0 THEN target ELSE li].name =
                                 get_scoped_name(ctx, @)]
  /\ ctx' = Link_urdf_finally(ctx)
  /\ hist' = [hist EXCEPT !.posePop = @ + 1]
  /\ pc' = "links"
  /\ li' = li + 1
  /\ ci' = 1 /\ vi' = 1
  /\ UNCHANGED <<target, fmt, ji, out, prev>>

\* The return of Link._to_urdf and its finally clause.
LinkToUrdfExit ==
  /\ pc = "link"
  /\ ci > Len(CurModel.links[li].collisions)
  /\ vi > Len(CurModel.links[li].visuals)
  /\ frags' = [frags EXCEPT
                 !.links = Append(@, Link_urdf_frag(ctx, CurModel.links[li],
                                                    frags.collisions, frags.visuals)),
                 !.collisions = <<>>, !.visuals = <<>>]
  /\ ctx' = Link_urdf_finally(ctx)
  /\ hist' = [hist EXCEPT !.posePop = @ + 1]
  /\ pc' = "links"
  /\ li' = li + 1
  /\ ci' = 1 /\ vi' = 1
  /\ UNCHANGED <<tree, target, fmt, ji, out, prev>>

\* Joint._to_urdf: the assertion on the name, then the fragment.
JointToUrdf ==
  /\ pc = "links" /\ li > Len(CurModel.links) /\ ji <= Len(CurModel.joints)
  /\ IF Joint_urdf_raises(CurModel.joints[ji])
     THEN /\ pc' = "unwind"
          /\ UNCHANGED <<frags, ji>>
     ELSE /\ frags' = [frags EXCEPT
                         !.joints = Append(@, Joint_urdf_frag(ctx, CurModel.joints[ji]))]
          /\ ji' = ji + 1
          /\ pc' = pc
  /\ UNCHANGED <<tree, target, fmt, ctx, li, ci, vi, out, hist, prev>>

\* The return of Model._to_urdf, or the exception leaving it, through the
\* finally clause.
ModelToUrdfExit ==
  /\ \/ pc = "links" /\ li > Len(CurModel.links) /\ ji > Len(CurModel.joints)
     \/ pc = "unwind"
  /\ ctx' = Model_urdf_finally(ctx, pc = "unwind")
  /\ hist' = [hist EXCEPT !.namePop = @ + 1]
  /\ IF pc = "unwind"
     THEN out' = None /\ pc' = "raised"
     ELSE /\ out' = Some(Model_urdf_frag(CurModel, frags.links, frags.joints))
          /\ pc' = "done"
  /\ frags' = NoFrags
  /\ li' = 1 /\ ji' = 1
  /\ UNCHANGED <<tree, target, fmt, ci, vi, prev>>

Next ==
  \/ \E f \in {"sdf", "urdf", "scale_1d"} : Call(f)
  \/ Return
  \/ ModelToSdf
  \/ IncludeToSdf
  \/ SurfaceContactToSdf
  \/ SurfaceFrictionToSdf
  \/ SurfaceInfoToSdf
  \/ IncludeToUrdf
  \/ IncludeScale1d
  \/ SurfaceContactToUrdf
  \/ SurfaceFrictionToUrdf
  \/ SurfaceInfoToUrdf
  \/ JointAxisStateToUrdf
  \/ JointStateToUrdf
  \/ LinkStateToUrdf
  \/ ModelStateToUrdf
  \/ WorldStateToUrdf
  \/ ModelToUrdfEnter
  \/ LinkToUrdfEnter
  \/ CollisionToUrdf
  \/ VisualToUrdf
  \/ LinkToUrdfExit
  \/ JointToUrdf
  \/ ModelToUrdfExit

Spec == Init /\ [][Next]_vars

-----------------------------------------------------------------------------
(* Properties.                                                             *)

Returned == pc \in {"done", "raised"}

FlatModel == IsModelCall /\ fmt = "urdf"

StacksEmpty == ctx.names = <<>> /\ ctx.poses = <<>>

\* The flattened name of a local name of Model m, with the default separator.
Flat(m, local) == m.name \o "." \o local

TextOf(frag, tag) == ChildrenOf(frag, tag)[1].text

\* C1: during every render call, every pop of the name-scope stack and of
\* the pose stack is matched by a push made before it by the same render
\* operation, and both stacks are empty when the call returns.
C1_EveryPopMatchesAPush ==
  /\ hist.namePop <= hist.namePush
  /\ hist.posePop <= hist.posePush
  /\ (Returned => StacksEmpty)

\* C2: a Joint with no name makes the flattening render of a Model raise;
\* when a hard failure surfaces no fragment is returned and both stacks hold
\* what they held when the call started (nothing).
C2_HardFailureUnwinds ==
  /\ (pc = "raised" =>
        /\ out = None
        /\ ctx.names = NewContext.names
        /\ ctx.poses = NewContext.poses)
  /\ (FlatModel /\ pc = "done" =>
        \A j \in 1..Len(CurModel.joints) : CurModel.joints[j].name # None)

C2_Witness ==
  /\ pc = "raised" /\ tree.kind = "Model" /\ target = 0
  /\ hist.namePush = 1 /\ hist.posePush > 0
  /\ \E j \in 1..Len(tree.joints) : tree.joints[j].name = None

\* C3: in the flattening render of a Model named M every Link and Joint is
\* named "M." followed by its local name, a Joint's parent and child are
\* prefixed the same way, and so a reference still equals the flattened name
\* of the Link it named.
C3_FlattenedNames ==
  (FlatModel /\ pc = "done") =>
    LET m == CurModel
        links == ChildrenOf(Get(out), "link")
        joints == ChildrenOf(Get(out), "joint")
    IN /\ Len(links) = Len(m.links)
       /\ Len(joints) = Len(m.joints)
       /\ \A i \in 1..Len(m.links) :
            links[i].name = Some(Flat(m, m.links[i].name))
       /\ \A j \in 1..Len(m.joints) :
            /\ joints[j].name = Some(Flat(m, Get(m.joints[j].name)))
            /\ TextOf(joints[j], "parent") = <<Flat(m, m.joints[j].parent)>>
            /\ TextOf(joints[j], "child") = <<Flat(m, m.joints[j].child)>>
            /\ \A i \in 1..Len(m.links) :
                 /\ m.joints[j].parent = m.links[i].name
                      => TextOf(joints[j], "parent") = links[i].name
                 /\ m.joints[j].child = m.links[i].name
                      => TextOf(joints[j], "child") = links[i].name

C3_Witness ==
  /\ FlatModel /\ pc = "done" /\ tree.kind = "Model" /\ target = 0
  /\ Len(tree.links) = 2 /\ Len(tree.joints) = 2
  /\ tree.joints[1].parent = tree.links[2].name
  /\ tree.joints[1].child = tree.links[1].name

\* The case of C4: a Model with a pose is being rendered to the flattening
\* format and the children of one of its Links, which has a pose, are being
\* rendered.
C4_Case ==
  /\ FlatModel /\ pc = "link"
  /\ CurModel.pose # None
  /\ CurModel.links[li].pose # None

\* C4 as claimed: the Link's effective pose is compose(Pm, Pl).
C4_EffectivePoseComposesModelPose ==
  C4_Case =>
    TopPose(ctx) = compose(Get(CurModel.pose), Get(CurModel.links[li].pose))

\* C4 as amended: the Model's pose is not pushed (a diagnostic says it is
\* ignored), and the Link's effective pose is the Link's own pose Pl.
C4_EffectivePoseIsLinkPose ==
  C4_Case =>
    /\ ctx.poses = <<Get(CurModel.links[li].pose)>>
    /\ ctx.warnings[1] = [entity |-> RootRef("Model"),
                          message |-> "Model::pose will be ignored in URDF."]

C4_Witness == C4_Case /\ ci > 1 /\ vi > 1

\* C5: the flattening render of an Include always raises and returns no
\* fragment; the nesting render always succeeds and its fragment holds the
\* URI and the scale text.
C5_IncludeFlatRaisesNestedRenders ==
  tree.kind = "Include" =>
    /\ (fmt = "urdf" => pc \in {"call", "raised"} /\ out = None)
    /\ (fmt = "sdf" => pc \in {"call", "done"})
    /\ (fmt = "sdf" /\ pc = "done" =>
          /\ TextOf(Get(out), "uri") = <<tree.uri>>
          /\ Len(ChildrenOf(Get(out), "scale")) = 1
          /\ TextOf(Get(out), "scale") # <<>>
          /\ TextOf(Get(out), "scale") \in {tree.scale, tree.scale1d})

C5_Witness ==
  /\ tree.kind = "Include"
  /\ prev # None /\ Get(prev).fmt = "urdf" /\ Get(prev).status = "raised"
  /\ fmt = "sdf" /\ pc = "done"

ModelDiagnostic(field) ==
  [entity |-> RootRef("Model"),
   message |-> "Model::" \o field \o " will be ignored in URDF."]

Count(seq, x) == Cardinality({k \in 1..Len(seq) : seq[k] = x})

\* The number of leading diagnostics that refer to the Model.
OfModel(ws) == {k \in 1..Len(ws) : ws[k].entity = RootRef("Model")}

AllJointsNamed(m) == \A j \in 1..Len(m.joints) : m.joints[j].name # None

\* The case of C6: the flattening render of a Model is past the Model's own
\* diagnostics.
C6_Case == FlatModel /\ pc \in {"links", "link", "unwind", "done", "raised"}

C7_NestingOnlyEntitiesWarn ==
  (tree.kind \in NestingOnlyKinds /\ fmt = "urdf" /\ pc # "call") =>
    /\ pc = "done"
    /\ out = Some(EmptyFragment)
    /\ Len(ctx.warnings) >= 1
    /\ StacksEmpty
    /\ hist = NoHist

\* The collisions of Model m whose SurfaceInfo has its friction set.
WithFriction(m) ==
  UNION {{<<i, k>> : k \in {n \in 1..Len(m.links[i].collisions) :
                             /\ m.links[i].collisions[n].surface # None
                             /\ Get(m.links[i].collisions[n].surface).friction}} :
         i \in 1..Len(m.links)}

Entities(ws) == {ws[k].entity : k \in 1..Len(ws)}

\* Every tag of a link fragment: its children's and its grandchildren's.
TagsUnder(frag) ==
  {frag.children[k].tag : k \in 1..Len(frag.children)}
  \cup UNION {{frag.children[k].children[n].tag :
                 n \in 1..Len(frag.children[k].children)} :
              k \in 1..Len(frag.children)}

\* C8 as claimed: a diagnostic refers to the Link or to the Collision.
C8_FrictionDiagnosticNamesLinkOrCollision ==
  (FlatModel /\ pc = "done") =>
    \A e \in WithFriction(CurModel) :
      Entities(ctx.warnings)
        \cap {Ref("Link", e[1], 0), Ref("Collision", e[1], e[2])} # {}

\* C8 as amended: the link fragment holds no surface or friction text, and a
\* diagnostic is appended that refers to the Collision's SurfaceInfo.
C8_FrictionDroppedWithSurfaceDiagnostic ==
  (FlatModel /\ pc = "done") =>
    \A e \in WithFriction(CurModel) :
      /\ Ref("SurfaceInfo", e[1], e[2]) \in Entities(ctx.warnings)
      /\ TagsUnder(ChildrenOf(Get(out), "link")[e[1]])
           \cap {"surface", "friction", "contact"} = {}

C8_Witness ==
  /\ FlatModel /\ pc = "done" /\ tree.kind = "Model" /\ target = 0
  /\ <<1, 2>> \in WithFriction(tree)

Names(frags_) == [k \in 1..Len(frags_) |-> frags_[k].name]

\* The name a child named local has in the output of the format in use.
Rendered(m, local) == IF fmt = "urdf" THEN Some(Flat(m, local)) ELSE Some(local)

\* C9: every owned child is rendered exactly once, in stored order: the
\* Model's links then its joints, and each Link's inertial, collisions,
\* visuals and sensors.
C9_EveryChildRenderedOnceInOrder ==
  (IsModelCall /\ pc = "done") =>
    LET m == CurModel
        links == ChildrenOf(Get(out), "link")
        joints == ChildrenOf(Get(out), "joint")
    IN /\ Names(links) = [i \in 1..Len(m.links) |-> Rendered(m, m.links[i].name)]
       /\ Len(joints) = Len(m.joints)
       /\ \A i \in 1..Len(m.links) :
            /\ Len(ChildrenOf(links[i], "inertial"))
                 = (IF m.links[i].inertial # None THEN 1 ELSE 0)
            /\ Names(ChildrenOf(links[i], "collision"))
                 = [k \in 1..Len(m.links[i].collisions) |->
                      Rendered(m, m.links[i].collisions[k].name)]
            /\ Names(ChildrenOf(links[i], "visual"))
                 = [k \in 1..Len(m.links[i].visuals) |->
                      Rendered(m, m.links[i].visuals[k].name)]
            /\ Len(ChildrenOf(links[i], "sensor")) = Len(m.links[i].sensors)

\* C10: rendering the same tree a second time, with a fresh context, to the
\* same format ends the same way with the same output and the same
\* diagnostics as the first time.
C10_SecondRenderSameResult ==
  (prev # None /\ Returned /\ Get(prev).fmt = fmt /\ Get(prev).target = target) =>
    /\ Get(prev).status = pc
    /\ Get(prev).out = out
    /\ Get(prev).warnings = ctx.warnings

C10_Witness ==
  /\ prev # None /\ pc = "done" /\ Get(prev).fmt = fmt
  /\ Get(prev).target = target
  /\ fmt = "urdf" /\ tree.kind = "Model" /\ target = 0
  /\ Len(tree.links) = 1 /\ Len(ctx.warnings) > 1

\* C11: no step of a render, to either format, successful or failed,
\* changes the entity tree: every field and every child list stays what it
\* was, also when a Link of a Model is rendered through Link.to_sdf_xml or
\* Link.to_urdf_xml, which wrap it in a temporary Model.
C11_RenderLeavesTreeUnchanged == [][tree' = tree]_vars

C11_Witness ==
  /\ tree.kind = "Model" /\ Len(tree.links) = 2
  /\ tree.pose # None /\ tree.static
  /\ prev # None /\ Get(prev).target = 0 /\ Get(prev).status = "raised"
  /\ target = 2 /\ fmt = "urdf" /\ pc = "done"
  /\ Get(out).name = Some(tree.links[2].name)

\* The text of the children of frag with the given tag, in order.
Texts(frag, tag) ==
  [k \in 1..Len(ChildrenOf(frag, tag)) |-> ChildrenOf(frag, tag)[k].text]

\* What the nesting render of a Model does apart from the parent reference:
\* the pose when present, the static flag, no diagnostic, no stack touched,
\* and no pose element for a Link that has no pose.
C12_PoseStaticEmittedContextUntouched ==
  LET m == CurModel
      links == ChildrenOf(Get(out), "link")
  IN /\ Texts(Get(out), "pose") = (IF m.pose # None THEN <<Get(m.pose)>> ELSE <<>>)
     /\ Texts(Get(out), "static") = <<BoolText(m.static)>>
     /\ ctx = NewContext
     /\ hist = NoHist
     /\ \A i \in 1..Len(m.links) :
          Texts(links[i], "pose")
            = (IF m.links[i].pose # None THEN <<Get(m.links[i].pose)>> ELSE <<>>)

\* C12: the nesting render of a Model emits the Model's pose when present,
\* its static flag and its parent reference when present, appends no
\* diagnostic and touches neither stack; a Link with no pose gets no pose
\* element.
C12_NestedModelEmitsPoseStaticParent ==
  (IsModelCall /\ fmt = "sdf" /\ pc = "done") =>
    /\ C12_PoseStaticEmittedContextUntouched
    /\ Texts(Get(out), "parent") = (IF CurModel.parent # None
                                    THEN <<CurModel.parent>> ELSE <<>>)

\* C13: the nesting render of an Include emits exactly one scale element,
\* holding the scalar when the scalar is set, whatever the 3-axis vector is,
\* and the three vector components otherwise; reading scale_1d on an Include
\* whose scalar is not set raises and returns no value, and returns the
\* scalar when it is set.
C13_ScalarScaleFirstAccessorRaisesUnset ==
  tree.kind = "Include" =>
    /\ (fmt = "sdf" /\ pc = "done" =>
          Texts(Get(out), "scale")
            = <<IF tree.scale1d # None THEN <<Get(tree.scale1d)>>
                ELSE tree.scale>>)
    /\ (fmt = "scale_1d" /\ pc # "call" =>
          IF tree.scale1d = None
          THEN pc = "raised" /\ out = None
          ELSE pc = "done" /\ out = tree.scale1d)

C13_Witness ==
  /\ tree.kind = "Include"
  /\ tree.scale1d # None /\ tree.scale = <<"sx", "sy", "sz">>
  /\ prev # None /\ Get(prev).fmt = "scale_1d"
  /\ Get(prev).status = "done" /\ Get(prev).out = tree.scale1d
  /\ fmt = "sdf" /\ pc = "done"
  /\ TextOf(Get(out), "scale") = tree.scale1d

\* The accessor's failure: the scalar is not set, the read has raised, and
\* the nesting render of the same Include emits the vector.
C13_AccessorRaised ==
  /\ tree.kind = "Include" /\ tree.scale1d = None
  /\ prev # None /\ Get(prev).fmt = "sdf" /\ Get(prev).status = "done"
  /\ TextOf(Get(prev).out[1], "scale") = tree.scale
  /\ fmt = "scale_1d" /\ pc = "raised" /\ out = None

====
